---- MODULE Spec2Model ----
(***************************************************************************)
(* A model of photon2d's sprite batching: SpriteBatch (a fixed-capacity    *)
(* dense array of six-vertex blocks), Sprite (a handle caching its batch   *)
(* and slot index), Text (a composite of glyph sprites) and Renderer2D     *)
(* (first-fit routing of sprites to batches by texture, and the render     *)
(* pass that uploads dirty batches).                                       *)
(*                                                                         *)
(* Floats are modelled by integers.  A pointer to a SpriteBatch is the     *)
(* batch's position in Renderer2D::batches (0 is nullptr).  A Sprite       *)
(* object is an id: 1..NumSprites are sprites owned by the caller, the     *)
(* ids after them are the elements of Text::sprites.                       *)
(***************************************************************************)
EXTENDS Integers, Sequences, FiniteSets

(* ------------------------------ bounds --------------------------------- *)

\* Slots per batch.  The program uses 10000; the model scales it down.
BatchCapacity == 2

\* Sprite objects owned by the caller.
NumSprites == 3

\* Batches the renderer may create before the model stops adding more.
MaxBatches == 3

(* ------------------------- program constants --------------------------- *)

BATCH_SIZE == BatchCapacity

VERTEX_SIZE == 8

\* The largest u32.  TLC's integers are 32-bit signed, so the model's u32
\* tops out at 2^31 - 1 instead of 2^32 - 1; what matters is that 0 - 1
\* wraps to a number far above any capacity.
UINT_MAX == 2147483647

\* Arithmetic on u32 (SpriteBatch::spriteCount) wraps.
U32(x) == IF x < 0 THEN (x + UINT_MAX) + 1 ELSE x

nullptr == 0

Textures == {"T1", "T2"}

\* Font::texture, the texture of every glyph sprite.
FontTexture == "T2"

SpriteIds == 1 .. NumSprites

Slots == 0 .. (BATCH_SIZE - 1)

(* --------------------------- vertex blocks ----------------------------- *)

\* calloc(VERTEX_SIZE * 6, sizeof(f32)): the block toggleInvisibility writes,
\* and what memset leaves in a vacated slot.
ZeroBlock == [v \in 1 .. 6 |-> [a \in 1 .. VERTEX_SIZE |-> 0]]

\* Memory that was allocated and never written holds any bit pattern; the
\* model keeps two of them, all-zero and a pattern no sprite encodes to.
JunkBlock == [v \in 1 .. 6 |-> [a \in 1 .. VERTEX_SIZE |-> -1]]

Uninit == {ZeroBlock, JunkBlock}

\* The f32 vertices[] array SpriteBatch::updateSprite builds from a sprite.
Vertices(sp) ==
    LET x == sp.pos[1]
        y == sp.pos[2]
        w == sp.size[1]
        h == sp.size[2]
        c == sp.color
        t == sp.texCoords
    IN  << <<x,     y,     c[1], c[2], c[3], c[4], t[1], t[4]>>,
           <<x + w, y,     c[1], c[2], c[3], c[4], t[3], t[4]>>,
           <<x + w, y + h, c[1], c[2], c[3], c[4], t[3], t[2]>>,
           <<x + w, y + h, c[1], c[2], c[3], c[4], t[3], t[2]>>,
           <<x,     y + h, c[1], c[2], c[3], c[4], t[1], t[2]>>,
           <<x,     y,     c[1], c[2], c[3], c[4], t[1], t[4]>> >>

(* ------------------------------ objects -------------------------------- *)

\* Sprite::Sprite(pos, size, texture) with the member initialisers.
Sprite(pos, size, texture) ==
    [batch      |-> nullptr,
     batchIndex |-> 0,
     invisible  |-> FALSE,
     pos        |-> pos,
     color      |-> <<1, 1, 1, 1>>,
     size       |-> size,
     texture    |-> texture,
     texCoords  |-> <<0, 0, 1, 1>>]

\* SpriteBatch::SpriteBatch(texture, shader): data is new f32[...] (never
\* written), the GPU buffer is glBufferData(..., nullptr, ...) (never
\* written); g and h are what the two stores happen to hold.  alive says
\* that the object and its data have not been deleted.
SpriteBatch(texture, g, h) ==
    [texture      |-> texture,
     alive        |-> TRUE,
     spriteCount  |-> 0,
     shouldBuffer |-> FALSE,
     data         |-> [i \in Slots |-> g],
     gpu          |-> [i \in Slots |-> h]]

VARIABLES
    sprite,     \* every Sprite object, by id
    text,       \* the Text: its str, its spacing, the size of Text::sprites
    batches,    \* Renderer2D::batches
    fault,      \* a load or store outside a batch's data has happened
    last        \* the operation that led to this state

vars == <<sprite, text, batches, fault, last>>

(***************************************************************************)
(* The member functions, as functions of the heap w = [sprite, batches,    *)
(* fault]: b is a SpriteBatch* (a position in batches), s a Sprite*.       *)
(***************************************************************************)

World == [sprite |-> sprite, batches |-> batches, fault |-> fault]

\* A hasSpace() that is off by one: it still answers true at BATCH_SIZE.
hasSpace_OffByOne(w, b) == w.batches[b].spriteCount <= BATCH_SIZE

\* bool SpriteBatch::hasSpace()
hasSpace(w, b) == w.batches[b].spriteCount < BATCH_SIZE

\* A rawSetVertices that ignores index and writes the first slot.
rawSetVertices_FirstSlot(w, b, index, vertices) ==
    [w EXCEPT !.batches[b].data[0] = vertices]

\* void SpriteBatch::rawSetVertices(i32 index, f32 *vertices): a memcpy into
\* data at slot index, with no check of index (nor can it know that data
\* has been deleted).
rawSetVertices(w, b, index, vertices) ==
    IF index \in Slots /\ w.batches[b].alive
    THEN [w EXCEPT !.batches[b].data[index] = vertices]
    ELSE [w EXCEPT !.fault = TRUE]

\* void SpriteBatch::updateSprite(Sprite *sprite)
updateSprite(w, b, s) ==
    LET w1 == rawSetVertices(w, b, w.sprite[s].batchIndex, Vertices(w.sprite[s]))
    IN  [w1 EXCEPT !.batches[b].shouldBuffer = TRUE]

\* An addSprite that reads spriteCount into batchIndex after the increment.
addSprite_IndexAfterIncrement(w, b, s) ==
    IF hasSpace(w, b)
    THEN LET w1 == [w EXCEPT !.sprite[s].batch = b,
                             !.sprite[s].batchIndex = U32(w.batches[b].spriteCount + 1),
                             !.batches[b].spriteCount = U32(@ + 1)]
         IN  updateSprite(w1, b, s)
    ELSE w

\* void SpriteBatch::addSprite(Sprite *sprite)
SpriteBatch_addSprite(w, b, s) ==
    IF hasSpace(w, b)
    THEN LET w1 == [w EXCEPT !.sprite[s].batch = b,
                             !.sprite[s].batchIndex = w.batches[b].spriteCount,
                             !.batches[b].spriteCount = U32(@ + 1)]
         IN  updateSprite(w1, b, s)
    ELSE w

\* A removeSprite that compacts the storage without zeroing the last slot.
removeSprite_NoZero(w, b, s) ==
    LET idx   == w.sprite[s].batchIndex
        tail  == U32(w.batches[b].spriteCount - 1)
        d     == w.batches[b].data
        inMem == idx \in Slots /\ tail \in Slots
        d1    == IF inMem THEN [d EXCEPT ![idx] = d[tail]] ELSE d
    IN  [w EXCEPT !.batches[b].data = d1,
                  !.sprite[s].batch = nullptr,
                  !.sprite[s].batchIndex = 0,
                  !.batches[b].spriteCount = U32(@ - 1),
                  !.batches[b].shouldBuffer = TRUE,
                  !.fault = @ \/ ~inMem]

\* A removeSprite that compacts the storage and forgets spriteCount--.
removeSprite_KeepsCount(w, b, s) ==
    LET idx   == w.sprite[s].batchIndex
        tail  == U32(w.batches[b].spriteCount - 1)
        d     == w.batches[b].data
        inMem == idx \in Slots /\ tail \in Slots
        d1    == IF inMem THEN [d EXCEPT ![idx] = d[tail]] ELSE d
        d2    == IF inMem THEN [d1 EXCEPT ![tail] = ZeroBlock] ELSE d
    IN  [w EXCEPT !.batches[b].data = d2,
                  !.sprite[s].batch = nullptr,
                  !.sprite[s].batchIndex = 0,
                  !.batches[b].shouldBuffer = TRUE,
                  !.fault = @ \/ ~inMem]

\* void SpriteBatch::removeSprite(Sprite *sprite): the block of the last live
\* slot is copied over the sprite's slot and the last live slot is zeroed.
\* No other sprite's batchIndex is touched.
removeSprite(w, b, s) ==
    LET idx   == w.sprite[s].batchIndex
        tail  == U32(w.batches[b].spriteCount - 1)
        d     == w.batches[b].data
        inMem == idx \in Slots /\ tail \in Slots /\ w.batches[b].alive
        d1    == IF inMem THEN [d EXCEPT ![idx] = d[tail]] ELSE d
        d2    == IF inMem THEN [d1 EXCEPT ![tail] = ZeroBlock] ELSE d
    IN  [w EXCEPT !.batches[b].data = d2,
                  !.sprite[s].batch = nullptr,
                  !.sprite[s].batchIndex = 0,
                  !.batches[b].spriteCount = U32(@ - 1),
                  !.batches[b].shouldBuffer = TRUE,
                  !.fault = @ \/ ~inMem]

\* bool Sprite::isAdded()
isAdded(w, s) == w.sprite[s].batch # nullptr

\* void Sprite::update()
Sprite_update(w, s) ==
    IF isAdded(w, s) THEN updateSprite(w, w.sprite[s].batch, s) ELSE w

\* A toggleInvisibility that flips the flag of a detached sprite too.
toggleInvisibility_FlagAlways(w, s) ==
    IF isAdded(w, s)
    THEN IF w.sprite[s].invisible
         THEN [Sprite_update(w, s) EXCEPT !.sprite[s].invisible = FALSE]
         ELSE LET b  == w.sprite[s].batch
                  w1 == rawSetVertices(w, b, w.sprite[s].batchIndex, ZeroBlock)
              IN  [w1 EXCEPT !.batches[b].shouldBuffer = TRUE,
                             !.sprite[s].invisible = TRUE]
    ELSE [w EXCEPT !.sprite[s].invisible = ~@]

\* A toggleInvisibility that hides by writing the slot after the sprite's.
toggleInvisibility_NextSlot(w, s) ==
    IF isAdded(w, s)
    THEN IF w.sprite[s].invisible
         THEN [Sprite_update(w, s) EXCEPT !.sprite[s].invisible = FALSE]
         ELSE LET b  == w.sprite[s].batch
                  w1 == rawSetVertices(w, b, w.sprite[s].batchIndex + 1, ZeroBlock)
              IN  [w1 EXCEPT !.batches[b].shouldBuffer = TRUE,
                             !.sprite[s].invisible = TRUE]
    ELSE w

\* A toggleInvisibility that hides the sprite without marking the batch.
toggleInvisibility_NoMark(w, s) ==
    IF isAdded(w, s)
    THEN IF w.sprite[s].invisible
         THEN [Sprite_update(w, s) EXCEPT !.sprite[s].invisible = FALSE]
         ELSE LET b  == w.sprite[s].batch
                  w1 == rawSetVertices(w, b, w.sprite[s].batchIndex, ZeroBlock)
              IN  [w1 EXCEPT !.sprite[s].invisible = TRUE]
    ELSE w

\* void Sprite::toggleInvisibility()
toggleInvisibility(w, s) ==
    IF isAdded(w, s)
    THEN IF w.sprite[s].invisible
         THEN [Sprite_update(w, s) EXCEPT !.sprite[s].invisible = FALSE]
         ELSE LET b  == w.sprite[s].batch
                  w1 == rawSetVertices(w, b, w.sprite[s].batchIndex, ZeroBlock)
              IN  [w1 EXCEPT !.batches[b].shouldBuffer = TRUE,
                             !.sprite[s].invisible = TRUE]
    ELSE w

\* void Sprite::remove()
Sprite_remove(w, s) ==
    IF isAdded(w, s)
    THEN [removeSprite(w, w.sprite[s].batch, s) EXCEPT
              !.sprite[s].batch = nullptr,
              !.sprite[s].batchIndex = 0]
    ELSE w

(* ------------------------------ inputs --------------------------------- *)

\* The strings the caller gives the Text: "AB", "A" and "B A".
TextStrs == {<<65, 66>>, <<65>>, <<66, 32, 65>>}

InitialStr == <<65, 66>>

\* The most sprites a Text holds: no string makes more sprites than it has
\* characters.
MaxGlyphs == CHOOSE n \in 0 .. 8 :
    /\ \E str \in TextStrs : Len(str) = n
    /\ \A str \in TextStrs : Len(str) <= n

GlyphIds == (NumSprites + 1) .. (NumSprites + MaxGlyphs)

AllIds == SpriteIds \cup GlyphIds

(* ------------------------------- Text ---------------------------------- *)

\* The font's packed glyph table, as stbtt_GetPackedQuad reads it through
\* Font::getGlyphQuad(c): the quad (x0, y0, x1, y1) and the texture
\* rectangle (s0, t0, s1, t1) of a character.  The model's font has 'A' ten
\* units wide, 'B' twelve, '-' four, and empty quads elsewhere.
getGlyphQuad(c) ==
    CASE c = 65 -> [x0 |-> 0, y0 |-> -2, x1 |-> 10, y1 |-> 0,
                    s0 |-> 0, t0 |-> 0, s1 |-> 1, t1 |-> 1]
      [] c = 66 -> [x0 |-> 0, y0 |-> -2, x1 |-> 12, y1 |-> 0,
                    s0 |-> 1, t0 |-> 0, s1 |-> 2, t1 |-> 1]
      [] c = 45 -> [x0 |-> 0, y0 |-> -1, x1 |-> 4, y1 |-> 0,
                    s0 |-> 2, t0 |-> 0, s1 |-> 3, t1 |-> 1]
      [] OTHER  -> [x0 |-> 0, y0 |-> 0, x1 |-> 0, y1 |-> 0,
                    s0 |-> 0, t0 |-> 0, s1 |-> 0, t1 |-> 0]

\* packedCharsBufferSize = ('~' - ' '): the number of elements of
\* packedCharsBuffer, and the number of characters stbtt_PackFontRange packs
\* into it from ' ' on.
packedCharsBufferSize == 126 - 32

\* The index c - ' ' that Font::getGlyphQuad hands to stbtt_GetPackedQuad.
GlyphIndex(c) == c - 32

\* Whether index is the index of an element of packedCharsBuffer.
InTable(index) == index >= 0 /\ index < packedCharsBufferSize

\* What a read outside packedCharsBuffer can find there: nothing, or
\* something that reads as a quad.
ZeroQuad == [x0 |-> 0, y0 |-> 0, x1 |-> 0, y1 |-> 0,
             s0 |-> 0, t0 |-> 0, s1 |-> 0, t1 |-> 0]

JunkQuad == [x0 |-> 0, y0 |-> -7, x1 |-> 3, y1 |-> 0,
             s0 |-> 3, t0 |-> 0, s1 |-> 4, t1 |-> 1]

BeyondTable == {ZeroQuad, JunkQuad}

\* stbtt_aligned_quad Font::getGlyphQuad(const char c), the memory outside
\* the table reading as q: the index is not checked.
getGlyphQuadAt(c, q) == IF InTable(GlyphIndex(c)) THEN getGlyphQuad(c) ELSE q

\* glm::vec4 Font::getGlyphTexCoords(const char c), likewise
getGlyphTexCoordsAt(c, q) ==
    LET quad == getGlyphQuadAt(c, q) IN <<quad.s0, quad.t0, quad.s1, quad.t1>>

\* glm::vec4 Font::getGlyphTexCoords(const char c), for a character of the
\* table
getGlyphTexCoords(c) ==
    LET quad == getGlyphQuad(c) IN <<quad.s0, quad.t0, quad.s1, quad.t1>>

\* i32 Font::getGlyphKern(c1, c2): the font's kerning table; the model's
\* font pulls an 'A' that follows a 'B' one unit closer.
getGlyphKern(c1, c2) == IF c1 = 66 /\ c2 = 65 THEN -1 ELSE 0

\* stbtt_ScaleForPixelHeight(&font->info, 64.0f)
FontScale == 1

\* The Text's pos, size and spacing (Text::Text's arguments).
TextPos == <<0, 0>>

TextSize == 1

TextSpacing == 0

\* A printable-range test that lets every character through.
Printable_Any(c) == TRUE

\* The test c >= ' ' && c <= '~' of Text::createSprites.
Printable(c) == c >= 32 /\ c <= 126

\* The loop of Text::createSprites from character i on, with the pen at xPos
\* and out the sprites pushed so far, for a Text whose spacing is spacing;
\* the memory outside the glyph table reads as q.
RECURSIVE createSpritesFrom(_, _, _, _, _, _)
createSpritesFrom(str, i, xPos, out, spacing, q) ==
    IF i > Len(str)
    THEN out
    ELSE LET c    == str[i]
             quad == getGlyphQuadAt(c, q)
         IN  IF c = 32
             THEN LET lineQuad == getGlyphQuadAt(45, q)
                      kern     == IF i < Len(str) THEN getGlyphKern(45, str[i + 1]) ELSE 0
                  IN  createSpritesFrom(str, i + 1,
                          xPos + (lineQuad.x1 - lineQuad.x0) * TextSize + spacing
                               + kern * TextSize * FontScale,
                          out, spacing, q)
             ELSE IF Printable(c)
             THEN LET kern == IF i < Len(str) THEN getGlyphKern(c, str[i + 1]) ELSE 0
                      sp   == [Sprite(<<xPos, TextPos[2] - quad.y1 * TextSize>>,
                                      <<(quad.x1 - quad.x0) * TextSize,
                                        (quad.y1 - quad.y0) * TextSize>>,
                                      FontTexture)
                               EXCEPT !.texCoords = getGlyphTexCoordsAt(c, q)]
                  IN  createSpritesFrom(str, i + 1,
                          xPos + (quad.x1 - quad.x0) * TextSize + spacing
                               + kern * TextSize * FontScale,
                          Append(out, sp), spacing, q)
             ELSE createSpritesFrom(str, i + 1, xPos, out, spacing, q)

\* void Text::createSprites(): the sprites it pushes for str when the Text's
\* spacing is spacing and the memory outside the glyph table reads as q.
Text_createSpritesAt(str, spacing, q) ==
    createSpritesFrom(str, 1, TextPos[1], <<>>, spacing, q)

\* The same for a str without '~', the one character whose quad is used
\* although it is read outside the table.
Text_createSprites(str, spacing) == Text_createSpritesAt(str, spacing, ZeroQuad)

\* The indices Text::createSprites looks up in the glyph table from
\* character i of str on, in the order of the calls: the character's (before
\* the range test), 'A' twice for maxSize, then '-' for a space, or the
\* character's again (getGlyphTexCoords) for a glyph.
RECURSIVE createSpritesLookups(_, _)
createSpritesLookups(str, i) ==
    IF i > Len(str)
    THEN <<>>
    ELSE LET c == str[i]
         IN  <<GlyphIndex(c), GlyphIndex(65), GlyphIndex(65)>>
             \o (IF c = 32 THEN <<GlyphIndex(45)>>
                 ELSE IF Printable(c) THEN <<GlyphIndex(c)>>
                 ELSE <<>>)
             \o createSpritesLookups(str, i + 1)

\* The indices the loop of Font::createFromTTF looks up: one for every c
\* from ' ' to '~', both included.
createFromTTFLookups == [k \in 1 .. (126 - 32 + 1) |-> GlyphIndex(32 + k - 1)]

\* Font::maxHeight as the loop of Font::createFromTTF leaves it: it starts
\* at 0 and is raised to every height above it (and below 1.e+8f, which every
\* height of the model is), so it ends as the greatest of 0 and the heights
\* of the quads looked up.
maxHeightOf(q) ==
    LET heights == {getGlyphQuadAt(c, q).y1 - getGlyphQuadAt(c, q).y0 : c \in 32 .. 126}
    IN  CHOOSE h \in heights \cup {0} : \A k \in heights \cup {0} : h >= k

\* The same for the Text the renderer is given, whose spacing is TextSpacing.
createSprites(str) == Text_createSprites(str, TextSpacing)

\* Element k of Text::sprites is the Sprite object NumSprites + k; an id past
\* the vector's size holds no object, shown as a default Sprite.
GlyphId(k) == NumSprites + k

NoSprite == Sprite(<<0, 0>>, <<0, 0>>, FontTexture)

\* Text::sprites of a Text with n elements, as the ids of its elements.
TextSprites(n) == [k \in 1 .. n |-> GlyphId(k)]

\* for(Sprite &sprite : sprites) sprite.remove();
RECURSIVE RemoveEach(_, _)
RemoveEach(w, ids) ==
    IF ids = <<>> THEN w ELSE RemoveEach(Sprite_remove(w, Head(ids)), Tail(ids))

\* A Text::update that clears the vector without removing its sprites.
Text_update_NoRemove(w, n, str) ==
    LET new == createSprites(str)
    IN  [w EXCEPT !.sprite = [id \in AllIds |->
            IF id \in GlyphIds
            THEN IF id - NumSprites <= Len(new) THEN new[id - NumSprites] ELSE NoSprite
            ELSE w.sprite[id]]]

\* void Text::update(), for a Text with n sprites whose str is now str:
\* every sprite is removed, the vector cleared, and createSprites() run.
Text_update(w, n, str) ==
    LET w1  == RemoveEach(w, TextSprites(n))
        new == createSprites(str)
    IN  [w1 EXCEPT !.sprite = [id \in AllIds |->
            IF id \in GlyphIds
            THEN IF id - NumSprites <= Len(new) THEN new[id - NumSprites] ELSE NoSprite
            ELSE w1.sprite[id]]]

\* The batches Renderer2D::addSprite's loop accepts for the sprite.
Fits(w, s) ==
    {i \in 1 .. Len(w.batches) :
        w.batches[i].texture = w.sprite[s].texture /\ hasSpace(w, i)}

\* The last accepting batch instead of the first.
LastOf(S) == CHOOSE i \in S : \A j \in S : i >= j

FirstOf(S) == CHOOSE i \in S : \A j \in S : i <= j

\* void Renderer2D::addSprite(Sprite *sprite); g and h are the contents of
\* the stores of a batch it constructs.
Renderer2D_addSprite(w, s, g, h) ==
    IF Fits(w, s) # {}
    THEN SpriteBatch_addSprite(w, FirstOf(Fits(w, s)), s)
    ELSE LET w1 == [w EXCEPT !.batches =
                        Append(@, SpriteBatch(w.sprite[s].texture, g, h))]
         IN  SpriteBatch_addSprite(w1, Len(w1.batches), s)

\* A render that clears shouldBuffer without running bufferData().
SpriteBatch_render_NoUpload(bt) == [bt EXCEPT !.shouldBuffer = FALSE]

\* void SpriteBatch::render(const Camera &camera): bufferData() uploads the
\* whole of data when shouldBuffer is set.
SpriteBatch_render(bt) ==
    IF bt.shouldBuffer
    THEN [bt EXCEPT !.gpu = bt.data, !.shouldBuffer = FALSE]
    ELSE bt

\* What one SpriteBatch::render does towards the GPU, for the batch at
\* position i: whether bufferData() ran, and the vertex count of its
\* glDrawArrays call.
RenderCall(i, bt) ==
    [batch |-> i, upload |-> bt.shouldBuffer, vertices |-> bt.spriteCount * 6]

\* A render loop that passes over the batches that hold no sprite.
RenderCalls_SkipEmpty(w) ==
    SelectSeq([i \in 1 .. Len(w.batches) |-> RenderCall(i, w.batches[i])],
              LAMBDA c : c.vertices > 0)

\* The calls of one Renderer2D::render, in the order of its loop.
RenderCalls(w) == [i \in 1 .. Len(w.batches) |-> RenderCall(i, w.batches[i])]

\* void Renderer2D::render(): every batch, in the order of the vector.
Renderer2D_render(w) ==
    [w EXCEPT !.batches = [i \in 1 .. Len(w.batches) |-> SpriteBatch_render(w.batches[i])],
              !.fault = @ \/ \E i \in 1 .. Len(w.batches) : ~w.batches[i].alive]

\* void SpriteBatch::destroy() and the delete of the batch in
\* Renderer2D::destroy: the memory is handed back; it keeps its content or
\* comes to hold g.
SpriteBatch_destroy(bt, kept, g) ==
    [bt EXCEPT !.alive = FALSE,
               !.data = IF kept THEN @ ELSE [i \in Slots |-> g]]

\* void Renderer2D::destroy(): every batch is destroyed and deleted; the
\* vector keeps the pointers, and no sprite is told.
Renderer2D_destroy(w, kept, g) ==
    [w EXCEPT !.batches = [i \in 1 .. Len(w.batches) |->
                              SpriteBatch_destroy(w.batches[i], kept, g)],
              !.fault = @ \/ \E i \in 1 .. Len(w.batches) : ~w.batches[i].alive]

\* void Renderer2D::addText(Text *text), for a Text with n sprites
RECURSIVE AddEach(_, _, _, _)
AddEach(w, ids, g, h) ==
    IF ids = <<>>
    THEN w
    ELSE AddEach(Renderer2D_addSprite(w, Head(ids), g, h), Tail(ids), g, h)

Renderer2D_addText(w, n, g, h) == AddEach(w, TextSprites(n), g, h)

\* void Renderer2D::updateText(Text *text), the Text's str being str by now
Renderer2D_updateText(w, n, str, g, h) ==
    Renderer2D_addText(Text_update(w, n, str), Len(createSprites(str)), g, h)

(* ----------------------------- the caller ------------------------------ *)

\* The caller's sprite s starts at x = s - 1 (A at (0,0), B at (1,0), ...)
\* with size (1,1), and is later moved between that place and a second one
\* of its own.
HomeX(s) == s - 1

AwayX(s) == s - 1 + NumSprites

\* The Sprite objects that exist: the caller's, and the Text's elements.
LiveIds == SpriteIds \cup {GlyphId(k) : k \in 1 .. text.n}

(* ----------------------------- the state ------------------------------- *)

\* What `last` says of the step taken: the operation, the sprite and the
\* batch it acted on (0: none), that batch's spriteCount before the step,
\* whether the step constructed a batch, what the call handed back to its
\* caller (every one of them returns void and throws nothing), whether any
\* sprite has been taken out of a batch so far, whether any batch has been
\* marked for upload so far, the render calls the step made, and the block
\* that was in the sprite's slot before the step.
Op(op, s, b, n, new) ==
    [op |-> op, s |-> s, b |-> b, n |-> n, new |-> new, ret |-> "void",
     removed |-> FALSE, marked |-> FALSE, calls |-> <<>>, before |-> ZeroBlock]

\* The block in the slot sprite s caches (the zero block when it caches none).
BlockOf(s) ==
    IF isAdded(World, s) /\ sprite[s].batchIndex \in Slots
    THEN batches[sprite[s].batch].data[sprite[s].batchIndex]
    ELSE ZeroBlock

\* Whether a step from the present state with operation l takes a sprite out
\* of a batch.
Removes(l) ==
    \/ l.op = "remove" /\ l.b # nullptr
    \/ l.op = "updateText" /\ \E k \in 1 .. text.n : sprite[NumSprites + k].batch # nullptr

Commit(w, l) ==
    /\ sprite' = w.sprite
    /\ batches' = w.batches
    /\ fault' = w.fault
    /\ last' = [l EXCEPT
                   !.removed = last.removed \/ Removes(l),
                   !.marked  = last.marked
                               \/ \E i \in 1 .. Len(w.batches) : w.batches[i].shouldBuffer]

GlyphObjects(str) ==
    LET new == createSprites(str)
    IN  [id \in GlyphIds |->
            IF id - NumSprites <= Len(new) THEN new[id - NumSprites] ELSE NoSprite]

\* The caller's sprites when the first k of them are constructed with
\* texture T1 and the others with T2 (which is also the font's texture).
CallerSprites(k) ==
    [id \in AllIds |->
        IF id \in SpriteIds
        THEN Sprite(<<HomeX(id), 0>>, <<1, 1>>, IF id <= k THEN "T1" ELSE "T2")
        ELSE NoSprite]

\* The caller's sprites that share the font's texture when all but the last
\* use T1.
Peers == {NumSprites}

\* The spriteCount of the batch sprite s points at (0 when it points at none).
CountOf(s) == IF isAdded(World, s) THEN batches[sprite[s].batch].spriteCount ELSE 0

\* renderer.addSprite(&sprite) for a sprite that is in no batch; a batch the
\* call constructs gets stores that hold g and h.
AddSpriteWith(s, g, h) ==
    LET w == Renderer2D_addSprite(World, s, g, h)
        b == w.sprite[s].batch
    IN  /\ ~isAdded(World, s)
        /\ Len(w.batches) <= MaxBatches
        /\ Commit(w, Op("addSprite", s, b,
                        IF b <= Len(batches) THEN batches[b].spriteCount ELSE 0,
                        Len(w.batches) > Len(batches)))
        /\ UNCHANGED text

AddSprite(s) == \E g \in Uninit, h \in Uninit : AddSpriteWith(s, g, h)

\* The same where no operation reads the GPU store: it is given the content
\* of data.
AddSpriteNoGpu(s) == \E g \in Uninit : AddSpriteWith(s, g, g)

\* renderer.addText(&text) for a Text none of whose sprites is in a batch
AddText ==
    \E g \in Uninit :
        LET w == Renderer2D_addText(World, text.n, g, g)
        IN  /\ \A k \in 1 .. text.n : ~isAdded(World, GlyphId(k))
            /\ Len(w.batches) <= MaxBatches
            /\ Commit(w, Op("addText", 0, 0, 0, Len(w.batches) > Len(batches)))
            /\ UNCHANGED text

\* text.str = str; renderer.updateText(&text)
UpdateText(str) ==
    \E g \in Uninit :
        LET w == Renderer2D_updateText(World, text.n, str, g, g)
        IN  /\ Len(w.batches) <= MaxBatches
            /\ Commit(w, Op("updateText", 0, 0, 0, Len(w.batches) > Len(batches)))
            /\ text' = [text EXCEPT !.str = str, !.n = Len(createSprites(str))]

\* sprite.update()
Update(s) ==
    /\ Commit(Sprite_update(World, s),
              [Op("update", s, sprite[s].batch, CountOf(s), FALSE)
                  EXCEPT !.before = BlockOf(s)])
    /\ UNCHANGED text

\* sprite.toggleInvisibility()
ToggleInvisibility(s) ==
    /\ Commit(toggleInvisibility(World, s),
              [Op("toggleInvisibility", s, sprite[s].batch, CountOf(s), FALSE)
                  EXCEPT !.before = BlockOf(s)])
    /\ UNCHANGED text

\* sprite.remove()
Remove(s) ==
    /\ Commit(Sprite_remove(World, s), Op("remove", s, sprite[s].batch, CountOf(s), FALSE))
    /\ UNCHANGED text

\* sprite.pos.x = x: Sprite's fields are public and the program has no
\* other setter.
SetPos(s, x) ==
    /\ x # sprite[s].pos[1]
    /\ sprite' = [sprite EXCEPT ![s].pos = <<x, @[2]>>]
    /\ last' = [Op("setPos", s, sprite[s].batch, CountOf(s), FALSE)
                   EXCEPT !.removed = last.removed, !.marked = last.marked]
    /\ UNCHANGED <<text, batches, fault>>

\* renderer.render()
Render ==
    /\ batches # <<>>
    /\ Commit(Renderer2D_render(World),
              [Op("render", 0, 0, 0, FALSE) EXCEPT !.calls = RenderCalls(World)])
    /\ UNCHANGED text

\* batch.addSprite(&sprite) for a sprite that is in no batch
BatchAdd(b, s) ==
    /\ ~isAdded(World, s)
    /\ Commit(SpriteBatch_addSprite(World, b, s),
              Op("batchAdd", s, b, batches[b].spriteCount, FALSE))
    /\ UNCHANGED text

\* batch.render(camera) on a batch of the caller's own
BatchRender(b) ==
    /\ Commit([World EXCEPT !.batches[b] = SpriteBatch_render(@)],
              [Op("batchRender", 0, b, batches[b].spriteCount, FALSE)
                  EXCEPT !.calls = <<RenderCall(b, batches[b])>>])
    /\ UNCHANGED text

\* renderer.destroy(); last.n is the number of batches that had been
\* destroyed before.
Destroy ==
    \E kept \in BOOLEAN, g \in Uninit :
        /\ batches # <<>>
        /\ Commit(Renderer2D_destroy(World, kept, g),
                  Op("destroy", 0, 0,
                     Cardinality({i \in 1 .. Len(batches) : ~batches[i].alive}), FALSE))
        /\ UNCHANGED text

\* renderer.addSprite(&sprite) before the renderer is destroyed
AddSpriteLive(s) ==
    /\ \A i \in 1 .. Len(batches) : batches[i].alive
    /\ AddSpriteNoGpu(s)

\* renderer.addSprite(&sprite) for a sprite that is in a batch already:
\* Renderer2D::addSprite does not ask isAdded().
AddSpriteAgain(s) ==
    \E g \in Uninit :
        LET w == Renderer2D_addSprite(World, s, g, g)
            b == w.sprite[s].batch
        IN  /\ isAdded(World, s)
            /\ Len(w.batches) <= MaxBatches
            /\ Commit(w, Op("addSpriteAgain", s, b,
                            IF b <= Len(batches) THEN batches[b].spriteCount ELSE 0,
                            Len(w.batches) > Len(batches)))
            /\ UNCHANGED text

NoText == [str |-> <<>>, n |-> 0, spacing |-> TextSpacing]

\* The characters of the strings a Text is constructed with: 'A', 'B', ' '
\* and '\n', which is outside ' '..'~'.
LayoutChars == {65, 66, 32, 10}

LayoutStrs == UNION {[1 .. n -> LayoutChars] : n \in 0 .. MaxGlyphs}

\* The spacings a Text is constructed with.
Spacings == {0, 2, -11}

\* Text text(&font, str, pos, size, spacing): the constructor runs
\* createSprites() on the empty vector.
Construct ==
    /\ last.op \in {"init", "createFromTTF"}
    /\ \E q \in BeyondTable :
          LET new == Text_createSpritesAt(text.str, text.spacing, q)
          IN  /\ sprite' = [id \in AllIds |->
                     IF id \in GlyphIds /\ id - NumSprites <= Len(new)
                     THEN new[id - NumSprites]
                     ELSE sprite[id]]
              /\ text' = [text EXCEPT !.n = Len(new)]
    /\ LET lookups == createSpritesLookups(text.str, 1)
       IN  /\ last' = [Op("Text", 0, 0, 0, FALSE) EXCEPT !.calls = lookups]
           /\ fault' = (fault \/ \E k \in DOMAIN lookups : ~InTable(lookups[k]))
    /\ UNCHANGED batches

\* Font font(path): createFromTTF packs the glyphs and scans them for
\* maxHeight, which last.n shows.
CreateFromTTF ==
    /\ last.op = "main"
    /\ \E q \in BeyondTable :
          last' = [Op("createFromTTF", 0, 0, maxHeightOf(q), FALSE)
                      EXCEPT !.calls = createFromTTFLookups]
    /\ fault' = (fault \/ \E k \in DOMAIN createFromTTFLookups :
                               ~InTable(createFromTTFLookups[k]))
    /\ UNCHANGED <<sprite, text, batches>>

(***************************************************************************)
(* Spec: the caller adds its sprites to the renderer and updates, hides    *)
(* and removes them.  All sprites but the last use T1.  There is no Text.  *)
(***************************************************************************)
Init ==
    /\ sprite = CallerSprites(NumSprites - 1)
    /\ text = NoText
    /\ batches = <<>>
    /\ fault = FALSE
    /\ last = Op("init", 0, 0, 0, FALSE)

Next ==
    \/ \E s \in SpriteIds : AddSpriteNoGpu(s)
    \/ \E s \in SpriteIds : Update(s)
    \/ \E s \in SpriteIds : ToggleInvisibility(s)
    \/ \E s \in SpriteIds : Remove(s)

Spec == Init /\ [][Next]_vars

(***************************************************************************)
(* SpecBatch: the caller drives one SpriteBatch it constructed itself:     *)
(* batch.addSprite(&sprite) for a sprite that is in no batch, and the      *)
(* sprite's update() and remove().                                         *)
(***************************************************************************)
InitBatch ==
    /\ sprite = CallerSprites(NumSprites)
    /\ text = NoText
    /\ \E g \in Uninit, h \in Uninit : batches = <<SpriteBatch("T1", g, h)>>
    /\ fault = FALSE
    /\ last = Op("init", 0, 0, 0, FALSE)

NextBatch ==
    \/ \E s \in SpriteIds : BatchAdd(1, s)
    \/ \E s \in SpriteIds : Update(s)
    \/ \E s \in SpriteIds : Remove(s)

SpecBatch == InitBatch /\ [][NextBatch]_vars

(***************************************************************************)
(* SpecRoute: the caller adds sprites to the renderer and removes them;    *)
(* its sprites all use T1, or all but the last do.                         *)
(***************************************************************************)
InitRoute ==
    /\ \E k \in {NumSprites - 1, NumSprites} : sprite = CallerSprites(k)
    /\ text = NoText
    /\ batches = <<>>
    /\ fault = FALSE
    /\ last = Op("init", 0, 0, 0, FALSE)

NextRoute ==
    \/ \E s \in SpriteIds : AddSpriteNoGpu(s)
    \/ \E s \in SpriteIds : Remove(s)

SpecRoute == InitRoute /\ [][NextRoute]_vars

(***************************************************************************)
(* SpecText: the caller constructs a Text, adds it to the renderer and     *)
(* refreshes it with new strings, while a sprite of its own that uses the  *)
(* font's texture is added, updated, hidden and removed.                   *)
(***************************************************************************)
InitText ==
    /\ sprite = [id \in AllIds |->
          IF id \in SpriteIds
          THEN CallerSprites(NumSprites - 1)[id]
          ELSE GlyphObjects(InitialStr)[id]]
    /\ text = [str |-> InitialStr, n |-> Len(createSprites(InitialStr)),
               spacing |-> TextSpacing]
    /\ batches = <<>>
    /\ fault = FALSE
    /\ last = Op("init", 0, 0, 0, FALSE)

NextText ==
    \/ AddText
    \/ \E str \in TextStrs : UpdateText(str)
    \/ \E s \in Peers : AddSpriteNoGpu(s)
    \/ \E s \in Peers : Update(s)
    \/ \E s \in Peers : ToggleInvisibility(s)
    \/ \E s \in Peers : Remove(s)

SpecText == InitText /\ [][NextText]_vars

(***************************************************************************)
(* SpecRender: the caller adds its first sprite (T1) and its last (T2) to   *)
(* the renderer, updates, hides and removes them, and renders frames.      *)
(***************************************************************************)
FrameIds == {1, 2}

RenderIds == {1, NumSprites}

InitRender ==
    /\ sprite = CallerSprites(NumSprites - 1)
    /\ text = NoText
    /\ batches = <<>>
    /\ fault = FALSE
    /\ last = Op("init", 0, 0, 0, FALSE)

NextRender ==
    \/ \E s \in RenderIds : AddSprite(s)
    \/ \E s \in RenderIds : Update(s)
    \/ \E s \in RenderIds : ToggleInvisibility(s)
    \/ \E s \in RenderIds : Remove(s)
    \/ Render

SpecRender == InitRender /\ [][NextRender]_vars

(***************************************************************************)
(* SpecFrame: the caller drives one SpriteBatch it constructed itself      *)
(* through frames: it inserts its first two sprites, updates, hides and    *)
(* removes them, and renders the batch.                                    *)
(***************************************************************************)
InitFrame ==
    /\ sprite = CallerSprites(NumSprites)
    /\ text = NoText
    /\ \E g \in Uninit, h \in Uninit : batches = <<SpriteBatch("T1", g, h)>>
    /\ fault = FALSE
    /\ last = Op("init", 0, 0, 0, FALSE)

NextFrame ==
    \/ \E s \in FrameIds : BatchAdd(1, s)
    \/ \E s \in FrameIds : Update(s)
    \/ \E s \in FrameIds : ToggleInvisibility(s)
    \/ \E s \in FrameIds : Remove(s)
    \/ BatchRender(1)

SpecFrame == InitFrame /\ [][NextFrame]_vars

(***************************************************************************)
(* SpecSync: the caller adds its first two sprites to the renderer, moves  *)
(* them by writing their pos field, and updates, hides and removes them.   *)
(***************************************************************************)
InitSync ==
    /\ sprite = CallerSprites(NumSprites - 1)
    /\ text = NoText
    /\ batches = <<>>
    /\ fault = FALSE
    /\ last = Op("init", 0, 0, 0, FALSE)

NextSync ==
    \/ \E s \in FrameIds : AddSpriteNoGpu(s)
    \/ \E s \in FrameIds : \E x \in {HomeX(s), AwayX(s)} : SetPos(s, x)
    \/ \E s \in FrameIds : Update(s)
    \/ \E s \in FrameIds : ToggleInvisibility(s)
    \/ \E s \in FrameIds : Remove(s)

SpecSync == InitSync /\ [][NextSync]_vars

(***************************************************************************)
(* SpecShutdown: the caller adds sprites to the renderer, updates and      *)
(* removes them and renders frames; it destroys the renderer at some       *)
(* point and goes on using its sprites and the renderer.                   *)
(***************************************************************************)
InitShutdown ==
    /\ sprite = CallerSprites(NumSprites - 1)
    /\ text = NoText
    /\ batches = <<>>
    /\ fault = FALSE
    /\ last = Op("init", 0, 0, 0, FALSE)

NextShutdown ==
    \/ \E s \in RenderIds : AddSpriteLive(s)
    \/ \E s \in RenderIds : Update(s)
    \/ \E s \in RenderIds : Remove(s)
    \/ Render
    \/ Destroy

SpecShutdown == InitShutdown /\ [][NextShutdown]_vars

(***************************************************************************)
(* SpecLayout: the caller constructs a Text from a string and a spacing.   *)
(***************************************************************************)
InitLayout ==
    /\ sprite = CallerSprites(NumSprites - 1)
    /\ \E str \in LayoutStrs, sp \in Spacings :
          text = [str |-> str, n |-> 0, spacing |-> sp]
    /\ batches = <<>>
    /\ fault = FALSE
    /\ last = Op("init", 0, 0, 0, FALSE)

NextLayout == Construct

SpecLayout == InitLayout /\ [][NextLayout]_vars

(***************************************************************************)
(* SpecAttach: the caller adds sprites to the renderer, also ones that are *)
(* in a batch already, and removes them; it does so with its first two     *)
(* sprites, which use T1.                                                  *)
(***************************************************************************)
InitAttach ==
    /\ sprite = CallerSprites(NumSprites - 1)
    /\ text = NoText
    /\ batches = <<>>
    /\ fault = FALSE
    /\ last = Op("init", 0, 0, 0, FALSE)

NextAttach ==
    \/ \E s \in FrameIds : AddSpriteNoGpu(s)
    \/ \E s \in FrameIds : AddSpriteAgain(s)
    \/ \E s \in FrameIds : Remove(s)

SpecAttach == InitAttach /\ [][NextAttach]_vars

(***************************************************************************)
(* SpecGlyph: the caller loads the Font and constructs a Text from a       *)
(* string over 'A', ' ', '~' and '\n'.                                     *)
(***************************************************************************)
GlyphChars == {65, 32, 126, 10}

GlyphStrs == UNION {[1 .. n -> GlyphChars] : n \in 0 .. MaxGlyphs}

InitGlyph ==
    /\ sprite = CallerSprites(NumSprites - 1)
    /\ \E str \in GlyphStrs : text = [str |-> str, n |-> 0, spacing |-> TextSpacing]
    /\ batches = <<>>
    /\ fault = FALSE
    /\ last = Op("main", 0, 0, 0, FALSE)

NextGlyph ==
    \/ CreateFromTTF
    \/ Construct

SpecGlyph == InitGlyph /\ [][NextGlyph]_vars

(***************************************************************************)
(* Properties of one SpriteBatch (SpecBatch).                              *)
(***************************************************************************)

\* The caller's sprites whose batch reference is batch b.
Attached(b) == {s \in SpriteIds : sprite[s].batch = b}

\* C1: after every insert and remove, spriteCount is the number of sprites
\* attached to the batch, and the slots [0, spriteCount) hold exactly the
\* attached sprites' current vertex blocks, one slot each (so no slot below
\* spriteCount holds a removed sprite's block).
C1_DenseLive ==
    LET bt == batches[1]
    IN  last.op \in {"batchAdd", "remove"} =>
        /\ bt.spriteCount = Cardinality(Attached(1))
        /\ \E f \in [Attached(1) -> 0 .. (bt.spriteCount - 1)] :
              /\ \A s, o \in Attached(1) : s # o => f[s] # f[o]
              /\ \A s \in Attached(1) : bt.data[f[s]] = Vertices(sprite[s])

\* A state C1 is about: a sprite has been removed from below the last live
\* slot and another is still attached.
C1_Reached ==
    /\ last.op = "remove"
    /\ last.b = 1
    /\ last.n = 2
    /\ Attached(1) # {}

\* C2: when the sprite at slot s is removed and s is not the last live slot,
\* the other sprite, whose block sat in the last live slot, has its
\* batchIndex set to s (its block is now in slot s, and its next update
\* writes there).
C2_MovedIndexFixed ==
    [][\A r, o \in SpriteIds :
          ( /\ last'.op = "remove" /\ last'.s = r
            /\ sprite[r].batch = 1
            /\ sprite[r].batchIndex < batches[1].spriteCount - 1
            /\ o # r
            /\ sprite[o].batch = 1
            /\ sprite[o].batchIndex = batches[1].spriteCount - 1 )
          => /\ sprite'[o].batchIndex = sprite[r].batchIndex
             /\ batches'[1].data[sprite'[o].batchIndex] = Vertices(sprite'[o])]_vars

\* C3: an insert into a full batch hands the caller a CapacityExceeded
\* outcome, and leaves the batch and the sprite as they were.
C3_FullInsertReported ==
    (last.op = "batchAdd" /\ last.n = BATCH_SIZE)
        => /\ last.ret = "CapacityExceeded"
           /\ batches[1].spriteCount = BATCH_SIZE
           /\ ~isAdded(World, last.s)

\* A state C3 is about: an insert was attempted on a full batch.
C3_Reached == last.op = "batchAdd" /\ last.n = BATCH_SIZE

\* C4: inserting a detached sprite into a batch with n < BATCH_SIZE sprites
\* writes the sprite's six-vertex block at slot n, sets the sprite's batch
\* reference and batchIndex = n, makes spriteCount n + 1, marks the batch
\* dirty, and leaves the slots [0, n) as they were.
C4_InsertPostcondition ==
    [][\A s \in SpriteIds :
          ( /\ last'.op = "batchAdd" /\ last'.s = s
            /\ ~isAdded(World, s)
            /\ batches[1].spriteCount < BATCH_SIZE )
          => LET n == batches[1].spriteCount
             IN  /\ batches'[1].data[n] = Vertices(sprite[s])
                 /\ sprite'[s].batch = 1
                 /\ sprite'[s].batchIndex = n
                 /\ sprite'[s] = [sprite[s] EXCEPT !.batch = 1, !.batchIndex = n]
                 /\ batches'[1].spriteCount = n + 1
                 /\ batches'[1].shouldBuffer
                 /\ \A i \in 0 .. (n - 1) : batches'[1].data[i] = batches[1].data[i]]_vars

\* An insert into a batch that already held a sprite has happened.
C4_Reached ==
    /\ last.op = "batchAdd"
    /\ last.n >= 1
    /\ last.n < BATCH_SIZE
    /\ sprite[last.s].batch = 1
    /\ batches[1].spriteCount = last.n + 1

\* C7: removing an attached sprite from a full batch makes hasSpace() true,
\* and the next insert of a detached sprite succeeds, bringing spriteCount
\* back to BATCH_SIZE; this after any number of remove/insert rounds.
C7_ChurnKeepsCapacity ==
    [][/\ ( /\ last'.op = "remove"
            /\ last'.b = 1
            /\ batches[1].spriteCount = BATCH_SIZE )
          => hasSpace([batches |-> batches'], 1)
       /\ ( /\ last.op = "remove" /\ last.b = 1 /\ last.n = BATCH_SIZE
            /\ last'.op = "batchAdd" )
          => /\ sprite'[last'.s].batch = 1
             /\ batches'[1].spriteCount = BATCH_SIZE]_vars

\* A sprite was removed at some point and an insert has filled the batch
\* again.
C7_Reached ==
    /\ last.op = "batchAdd"
    /\ last.removed
    /\ last.n = BATCH_SIZE - 1
    /\ batches[1].spriteCount = BATCH_SIZE
    /\ sprite[last.s].batch = 1

(***************************************************************************)
(* Properties of the sprites' cached slot index (Spec).                    *)
(***************************************************************************)

\* C5: whenever update() or toggleInvisibility() of a sprite reaches its
\* batch, the sprite's cached batchIndex is below that batch's spriteCount:
\* the write lands in a live slot.
C5_IndexLive ==
    ( /\ last.op \in {"update", "toggleInvisibility"}
      /\ isAdded(World, last.s) )
        => sprite[last.s].batchIndex < batches[sprite[last.s].batch].spriteCount

\* An update() reached a batch from which a sprite had been removed.
C5_Reached ==
    /\ last.op = "update"
    /\ last.removed
    /\ isAdded(World, last.s)

(***************************************************************************)
(* Properties of the routing of sprites to batches (SpecRoute).            *)
(***************************************************************************)

\* The batches an add of sprite s must consider: same texture, a free slot.
Accepting(s) ==
    {i \in 1 .. Len(batches) :
        /\ batches[i].texture = sprite[s].texture
        /\ batches[i].spriteCount < BATCH_SIZE}

\* The caller's attached sprites with texture tx.
AttachedWith(tx) == {s \in SpriteIds : sprite[s].batch # nullptr /\ sprite[s].texture = tx}

\* C8: Renderer2D::addSprite is first-fit over the batches in creation order:
\* the sprite goes into the first batch with its texture and a free slot, and
\* a new batch for its texture is appended exactly when there is none.  So
\* every attached sprite is in a batch of its texture, and two T1 sprites and
\* one T2 sprite added to an empty renderer give two batches holding 2 and 1.
C8_FirstFit ==
    /\ [][\A s \in SpriteIds :
            ( /\ last'.op = "addSprite" /\ last'.s = s
              /\ sprite[s].batch = nullptr )
            => IF Accepting(s) # {}
               THEN /\ sprite'[s].batch \in Accepting(s)
                    /\ \A i \in Accepting(s) : sprite'[s].batch <= i
                    /\ Len(batches') = Len(batches)
               ELSE /\ Len(batches') = Len(batches) + 1
                    /\ sprite'[s].batch = Len(batches')
                    /\ batches'[Len(batches')].texture = sprite[s].texture
                    /\ \A i \in 1 .. Len(batches) : batches'[i] = batches[i]]_vars
    /\ [](\A s \in SpriteIds :
            sprite[s].batch # nullptr
                => batches[sprite[s].batch].texture = sprite[s].texture)
    /\ []( ( /\ ~last.removed
             /\ Cardinality(AttachedWith("T1")) = 2
             /\ Cardinality(AttachedWith("T2")) = 1 )
           => /\ Len(batches) = 2
              /\ \E i, j \in 1 .. 2 :
                    /\ batches[i].texture = "T1" /\ batches[i].spriteCount = 2
                    /\ batches[j].texture = "T2" /\ batches[j].spriteCount = 1 )

\* Two T1 sprites and then a T2 sprite were added to an empty renderer.
C8_Reached ==
    /\ last.op = "addSprite"
    /\ last.new
    /\ ~last.removed
    /\ sprite[last.s].texture = "T2"
    /\ Cardinality(AttachedWith("T1")) = 2
    /\ Len(batches) = 2

(***************************************************************************)
(* Properties of the counts under text refreshes (SpecText).               *)
(***************************************************************************)

\* C6: every batch has 0 <= spriteCount <= BATCH_SIZE: the unsigned count
\* never wraps below zero, and no access has gone to a slot index outside
\* the batch's storage.
C6_CountInRange ==
    /\ ~fault
    /\ \A b \in 1 .. Len(batches) :
          /\ batches[b].spriteCount >= 0
          /\ batches[b].spriteCount <= BATCH_SIZE

\* A refresh has filled a batch again after sprites were taken out.
C6_Reached ==
    /\ last.op = "updateText"
    /\ last.removed
    /\ \E b \in 1 .. Len(batches) : batches[b].spriteCount = BATCH_SIZE

RECURSIVE SumCounts(_)
SumCounts(bs) == IF bs = <<>> THEN 0 ELSE Head(bs).spriteCount + SumCounts(Tail(bs))

C10_CleanMeansSynced ==
    \A b \in 1 .. Len(batches) :
        ~batches[b].shouldBuffer => batches[b].gpu = batches[b].data

\* C10, amended: once a batch has been marked by a storage-changing
\* operation, shouldBuffer false means that the GPU copy equals the CPU-side
\* storage; and every step that changes the storage leaves shouldBuffer
\* true.  (A batch just constructed has shouldBuffer false and two stores
\* that were never written.)
C10_CleanMeansSyncedOnceMarked ==
    /\ [](\A b \in 1 .. Len(batches) :
            (last.marked /\ ~batches[b].shouldBuffer)
                => batches[b].gpu = batches[b].data)
    /\ [][\A b \in 1 .. Len(batches) :
            batches'[b].data # batches[b].data => batches'[b].shouldBuffer]_vars

\* A frame was rendered, a sprite then hidden, and the batch rendered again:
\* the batch is clean and both stores hold the hidden sprite's zero block
\* next to another sprite's block.
C10_Reached ==
    /\ last.op = "batchRender"
    /\ last.marked
    /\ ~batches[1].shouldBuffer
    /\ batches[1].spriteCount = 2
    /\ \E s \in FrameIds :
          /\ sprite[s].batch = 1
          /\ sprite[s].invisible
          /\ batches[1].gpu[sprite[s].batchIndex] = ZeroBlock
    /\ \E s \in FrameIds :
          /\ sprite[s].batch = 1
          /\ batches[1].gpu[sprite[s].batchIndex] = Vertices(sprite[s])

(***************************************************************************)
(* Properties of SpriteBatch::render (SpecFrame).                          *)
(***************************************************************************)

\* What a step that is batch.render() does, where synced says whether the
\* GPU copy has to equal the storage afterwards.
RenderStep(synced) ==
    last'.op = "batchRender" =>
        LET old  == batches[1]
            new  == batches'[1]
            call == last'.calls[1]
        IN  /\ Len(last'.calls) = 1
            /\ call.upload = old.shouldBuffer
            /\ old.shouldBuffer => new.gpu = old.data
            /\ ~old.shouldBuffer => new.gpu = old.gpu
            /\ ~new.shouldBuffer
            /\ synced => new.gpu = new.data
            /\ call.vertices = old.spriteCount * 6
            /\ new.spriteCount = old.spriteCount
            /\ new.data = old.data
            /\ sprite' = sprite

\* C11, as stated: SpriteBatch::render uploads the whole storage exactly when
\* shouldBuffer is set and uploads nothing otherwise; after every render
\* shouldBuffer is false and the GPU copy equals the storage; the draw call
\* covers spriteCount * 6 vertices; spriteCount, the storage and the sprites
\* are unchanged.
C11_RenderSyncs == [][RenderStep(TRUE)]_vars

\* C11, amended: the same, with the GPU copy equal to the storage after every
\* render of a batch that had been marked before (a render of a batch that
\* was never inserted into uploads nothing and leaves both stores unwritten).
C11_RenderSyncsOnceMarked == [][RenderStep(last.marked)]_vars

\* A render uploaded a batch of two sprites after a removal and an insert.
C11_Reached ==
    /\ last.op = "batchRender"
    /\ last.removed
    /\ last.calls[1].upload
    /\ last.calls[1].vertices = 12
    /\ batches[1].gpu = batches[1].data

(***************************************************************************)
(* Properties of update() and toggleInvisibility() (SpecSync).             *)
(***************************************************************************)

\* The slots of batch b other than slot i hold in the next state what they
\* hold now.
OtherSlotsKept(b, i) ==
    \A j \in Slots : j # i => batches'[b].data[j] = batches[b].data[j]

\* C12: right after Sprite::update() on an attached sprite, the block at the
\* sprite's slot is the six-vertex encoding of the sprite's current pos,
\* size, color and texCoords; every other slot of the batch and spriteCount
\* are unchanged.
C12_UpdateRoundTrip ==
    [][\A s \in SpriteIds :
          (last'.op = "update" /\ last'.s = s /\ isAdded(World, s))
          => LET b == sprite[s].batch
                 i == sprite[s].batchIndex
             IN  /\ batches'[b].data[i] = Vertices(sprite[s])
                 /\ OtherSlotsKept(b, i)
                 /\ batches'[b].spriteCount = batches[b].spriteCount
                 /\ sprite' = sprite]_vars

\* An update() wrote the block of a sprite that had been moved since its
\* slot was last written.
C12_Reached ==
    /\ last.op = "update"
    /\ isAdded(World, last.s)
    /\ sprite[last.s].pos[1] = AwayX(last.s)
    /\ last.before # BlockOf(last.s)
    /\ batches[sprite[last.s].batch].spriteCount = 2

\* C13: for an attached sprite, toggleInvisibility() twice (visible,
\* invisible, visible) puts back exactly the block that was in the sprite's
\* slot before the first of the two calls; here for two calls in a row.
C13_TogglePairRestores ==
    [][\A s \in SpriteIds :
          ( /\ last.op = "toggleInvisibility" /\ last.s = s
            /\ isAdded(World, s) /\ sprite[s].invisible
            /\ last'.op = "toggleInvisibility" /\ last'.s = s )
          => batches'[sprite[s].batch].data[sprite[s].batchIndex] = last.before]_vars

\* A sprite was hidden and shown again by two calls in a row.
C13_Reached ==
    /\ last.op = "toggleInvisibility"
    /\ isAdded(World, last.s)
    /\ ~sprite[last.s].invisible
    /\ last.before = ZeroBlock
    /\ BlockOf(last.s) = Vertices(sprite[last.s])

\* C15: writing an attached sprite's fields changes neither the storage nor
\* shouldBuffer of any batch (only update() carries them over); update() and
\* toggleInvisibility() on a detached sprite change no batch and no field of
\* the sprite.
C15_ExplicitSync ==
    [][/\ last'.op = "setPos" => batches' = batches /\ fault' = fault
       /\ \A s \in SpriteIds :
             ( /\ last'.op \in {"update", "toggleInvisibility"} /\ last'.s = s
               /\ sprite[s].batch = nullptr )
             => batches' = batches /\ sprite' = sprite]_vars

\* An attached sprite was moved and its slot still holds the block of the
\* place it was moved from.
C15_Reached ==
    /\ last.op = "setPos"
    /\ isAdded(World, last.s)
    /\ ~sprite[last.s].invisible
    /\ BlockOf(last.s) # Vertices(sprite[last.s])
    /\ BlockOf(last.s) = Vertices([sprite[last.s] EXCEPT !.pos = <<HomeX(last.s), 0>>])

\* C19: hiding an attached, visible sprite writes an all-zero block to the
\* sprite's slot and to no other: spriteCount and the other slots are
\* unchanged, the sprite keeps its batch and batchIndex, and the batch is
\* marked.
C19_HideZeroesOwnSlot ==
    [][\A s \in SpriteIds :
          ( /\ last'.op = "toggleInvisibility" /\ last'.s = s
            /\ isAdded(World, s) /\ ~sprite[s].invisible )
          => LET b == sprite[s].batch
                 i == sprite[s].batchIndex
             IN  /\ batches'[b].data[i] = ZeroBlock
                 /\ OtherSlotsKept(b, i)
                 /\ batches'[b].spriteCount = batches[b].spriteCount
                 /\ batches'[b].shouldBuffer
                 /\ sprite'[s] = [sprite[s] EXCEPT !.invisible = TRUE]
                 /\ \A o \in AllIds : o # s => sprite'[o] = sprite[o]]_vars

\* A visible sprite sharing its batch with another was hidden.
C19_Reached ==
    /\ last.op = "toggleInvisibility"
    /\ isAdded(World, last.s)
    /\ sprite[last.s].invisible
    /\ last.before = Vertices(sprite[last.s])
    /\ BlockOf(last.s) = ZeroBlock
    /\ batches[sprite[last.s].batch].spriteCount = 2

(***************************************************************************)
(* Properties of remove() and of the cached slots.                         *)
(***************************************************************************)

\* C14: Sprite::remove() on an attached sprite takes one off its batch's
\* spriteCount, zeroes the vacated last live slot, marks the batch, leaves
\* every other batch as it was and the sprite detached (batch null,
\* batchIndex 0); on a detached sprite it changes no batch and no sprite.
C14_RemoveFrame ==
    [][\A s \in SpriteIds :
          (last'.op = "remove" /\ last'.s = s)
          => IF isAdded(World, s)
             THEN LET b == sprite[s].batch
                      n == batches[b].spriteCount
                  IN  /\ batches'[b].spriteCount = n - 1
                      /\ batches'[b].data[n - 1] = ZeroBlock
                      /\ batches'[b].shouldBuffer
                      /\ Len(batches') = Len(batches)
                      /\ \A o \in 1 .. Len(batches) : o # b => batches'[o] = batches[o]
                      /\ sprite'[s].batch = nullptr
                      /\ sprite'[s].batchIndex = 0
             ELSE batches' = batches /\ sprite' = sprite]_vars

\* A sprite was removed from a full batch while another batch held a sprite.
C14_Reached ==
    /\ last.op = "remove"
    /\ last.b # nullptr
    /\ last.n = BATCH_SIZE
    /\ ~isAdded(World, last.s)
    /\ batches[last.b].spriteCount = BATCH_SIZE - 1
    /\ \E o \in 1 .. Len(batches) : o # last.b /\ batches[o].spriteCount >= 1

\* C20: no two distinct attached sprites hold the same (batch, batchIndex)
\* pair, so an operation on one sprite never writes another sprite's block.
C20_SlotsUnique ==
    \A s, o \in SpriteIds :
        (s # o /\ sprite[s].batch # nullptr /\ sprite[s].batch = sprite[o].batch)
            => sprite[s].batchIndex # sprite[o].batchIndex

\* Three sprites have been through one batch: one was removed and another
\* inserted while a third stayed attached.
C20_Reached ==
    /\ last.op = "batchAdd"
    /\ last.removed
    /\ Cardinality(Attached(1)) = 2
    /\ \E s \in SpriteIds : sprite[s].batch = nullptr

(***************************************************************************)
(* Properties of the renderer's batch list (SpecRender).                   *)
(***************************************************************************)

\* C16: the batch list only grows at its end: no add, update, toggle, remove
\* or render takes a batch out or moves one (a batch whose spriteCount drops
\* to 0 stays, with its texture), and Renderer2D::render renders every batch
\* once per frame, in creation order.
C16_BatchesAppendOnly ==
    [][/\ Len(batches') >= Len(batches)
       /\ Len(batches') <= Len(batches) + 1
       /\ \A i \in 1 .. Len(batches) : batches'[i].texture = batches[i].texture
       /\ \A s \in SpriteIds :
             (last'.s # s /\ sprite[s].batch # nullptr)
                 => sprite'[s].batch = sprite[s].batch
       /\ last'.op = "render"
             => /\ Len(last'.calls) = Len(batches)
                /\ Len(batches') = Len(batches)
                /\ \A i \in 1 .. Len(batches) :
                      /\ last'.calls[i].batch = i
                      /\ last'.calls[i].vertices = batches[i].spriteCount * 6]_vars

\* A frame was rendered with the first batch emptied by a removal and the
\* second still holding a sprite.
C16_Reached ==
    /\ last.op = "render"
    /\ last.removed
    /\ Len(batches) = 2
    /\ Len(last.calls) = 2
    /\ batches[1].spriteCount = 0
    /\ batches[1].texture = "T1"
    /\ batches[2].spriteCount = 1

(***************************************************************************)
(* Properties of the shutdown (SpecShutdown).                              *)
(***************************************************************************)

\* C17: after Renderer2D::destroy(), update() or remove() on a sprite that
\* was attached to a destroyed batch gives a defined not-attached outcome
\* and touches no destroyed storage; a later render() or a second destroy()
\* touches no destroyed batch either.
C17_StaleHandleDefined ==
    /\ ( /\ last.op \in {"update", "remove"}
         /\ last.b # nullptr
         /\ ~batches[last.b].alive )
       => ~fault /\ last.ret = "NotAttached"
    /\ ( /\ last.op = "render"
         /\ \E i \in 1 .. Len(batches) : ~batches[i].alive )
       => ~fault
    /\ (last.op = "destroy" /\ last.n > 0) => ~fault

\* A sprite was updated after the batch it points at had been destroyed.
C17_Reached ==
    /\ last.op = "update"
    /\ last.b # nullptr
    /\ ~batches[last.b].alive
    /\ sprite[last.s].batch = last.b

(***************************************************************************)
(* Properties of Text::createSprites (SpecLayout).                         *)
(***************************************************************************)

\* The positions in str of the characters '!'..'~', in string order.
GlyphPositions(str) ==
    SelectSeq([j \in 1 .. Len(str) |-> j], LAMBDA j : str[j] >= 33 /\ str[j] <= 126)

\* What character j of str adds to the pen: a glyph its width, the spacing
\* and its kerning with the next character; a space the same with the width
\* and kerning of '-'; any other character nothing.
Advance(str, j, spacing) ==
    LET c     == str[j]
        shape == IF c = 32 THEN 45 ELSE c
        quad  == getGlyphQuad(shape)
        kern  == IF j < Len(str) THEN getGlyphKern(shape, str[j + 1]) ELSE 0
    IN  IF c >= 32 /\ c <= 126
        THEN (quad.x1 - quad.x0) * TextSize + spacing + kern * TextSize * FontScale
        ELSE 0

\* The pen's x when character j of str is reached.
RECURSIVE PenAt(_, _, _)
PenAt(str, j, spacing) ==
    IF j = 1 THEN TextPos[1]
    ELSE PenAt(str, j - 1, spacing) + Advance(str, j - 1, spacing)

\* What createSprites has to have made of text.str, where ordered says
\* whether the sprites' x must be non-decreasing.
LayoutOf(ordered) ==
    last.op = "Text" =>
        LET pos == GlyphPositions(text.str)
            x   == [k \in 1 .. text.n |-> sprite[GlyphId(k)].pos[1]]
        IN  /\ text.n = Len(pos)
            /\ \A k \in 1 .. Len(pos) :
                  /\ sprite[GlyphId(k)].texCoords = getGlyphTexCoords(text.str[pos[k]])
                  /\ sprite[GlyphId(k)].texture = FontTexture
                  /\ x[k] = PenAt(text.str, pos[k], text.spacing)
            /\ ordered => \A k \in 1 .. (Len(pos) - 1) : x[k] <= x[k + 1]
            /\ (text.str = <<65, 66>> /\ text.spacing = 0)
                  => text.n = 2 /\ x[1] = 0 /\ x[2] = 10

\* C18, as stated: Text::createSprites emits one glyph sprite per character
\* in '!'..'~', in string order and with non-decreasing pen x; a space moves
\* the pen and emits nothing; a character outside ' '..'~' emits nothing and
\* leaves the pen; "AB" with widths 10 and 12, no spacing and no kerning,
\* gives sprites at x = 0 and x = 10.
C18_Layout == LayoutOf(TRUE)

\* C18, amended: the same, with the pen x non-decreasing for the strings
\* none of whose characters moves the pen backwards (width, spacing and
\* kerning add up to a negative advance when the spacing is negative enough).
C18_LayoutForwardAdvances ==
    LayoutOf(\A j \in 1 .. Len(text.str) : Advance(text.str, j, text.spacing) >= 0)

\* A Text was made from a glyph, a character outside the range and a glyph,
\* or from a glyph, a space and a glyph.
C18_Reached ==
    /\ last.op = "Text"
    /\ text.n = 2
    /\ Len(text.str) = 3
    /\ text.str[2] \in {10, 32}
    /\ sprite[GlyphId(1)].pos[1] < sprite[GlyphId(2)].pos[1]

(***************************************************************************)
(* Adding a sprite that is attached already (SpecAttach).                  *)
(***************************************************************************)

\* The caller's sprites that are in a batch.
AttachedSprites == {s \in SpriteIds : isAdded(World, s)}

\* C21: Renderer2D::addSprite on a sprite that is attached already consumes
\* no second slot: after every addSprite and every remove, the spriteCounts
\* of all batches add up to the number of distinct attached sprites, so one
\* remove() of a sprite frees every slot it occupied.
C21_ReAddKeepsSlots ==
    last.op \in {"addSprite", "addSpriteAgain", "remove"}
        => SumCounts(batches) = Cardinality(AttachedSprites)

\* A sprite that was attached has been handed to addSprite again.
C21_Reached ==
    /\ last.op = "addSpriteAgain"
    /\ isAdded(World, last.s)
    /\ ~fault

(***************************************************************************)
(* The invisible flag and the stored geometry (SpecSync).                  *)
(***************************************************************************)

\* C22: the invisible flag agrees with the stored geometry: an attached
\* sprite with invisible = true has the all-zero block at its slot, and an
\* attached sprite with invisible = false that has just been updated (or
\* added) has its real encoding there; after update() of an invisible sprite
\* and after an invisible sprite is removed and added again as well.
C22_FlagAgreesWithGeometry ==
    \A s \in FrameIds :
        isAdded(World, s) /\ sprite[s].batchIndex \in Slots =>
            /\ sprite[s].invisible => BlockOf(s) = ZeroBlock
            /\ ~sprite[s].invisible /\ last.s = s /\ last.op \in {"update", "addSprite"}
                  => BlockOf(s) = Vertices(sprite[s])

\* update() has been called on an attached sprite that is invisible.
C22_Reached ==
    /\ last.op = "update"
    /\ isAdded(World, last.s)
    /\ sprite[last.s].invisible
    /\ ~last.removed
    /\ ~fault

(***************************************************************************)
(* The glyph table (SpecGlyph).                                            *)
(***************************************************************************)

\* C23: every glyph lookup of Font::createFromTTF (all c in ' '..'~') and of
\* Text::createSprites (every character of the string, before the range
\* test) uses an index inside the packed glyph table:
\* 0 <= c - ' ' < packedCharsBufferSize.
C23_LookupsInTable ==
    last.op \in {"createFromTTF", "Text"} =>
        \A k \in DOMAIN last.calls : InTable(last.calls[k])

\* The font has been loaded and its scan has looked up '~'.
C23_Reached ==
    /\ last.op = "createFromTTF"
    /\ Len(last.calls) = 126 - 32 + 1
    /\ last.calls[Len(last.calls)] = GlyphIndex(126)

====
